---- MODULE Spec2Model ----
(***************************************************************************)
(* A model of the NEO database core of NearEarthObjects_CLI:               *)
(*   models.py    NearEarthObject.__init__, CloseApproach.__init__         *)
(*   database.py  NEODatabase.__init__, get_neo_by_designation,            *)
(*                get_neo_by_name, query                                   *)
(* Python strings are sequences of one-character strings, so that          *)
(* str.upper, str.capitalize and str.title are computed character by       *)
(* character.  Python objects live in heaps indexed by identity: a NEO is  *)
(* its index in neo_objs, a close approach its index in cad_objs, and the  *)
(* reference None is the index 0.                                          *)
(***************************************************************************)
EXTENDS Integers, Sequences, FiniteSets, TLC

VARIABLES
    pc,                 \* "new" before NEODatabase(neos, approaches), "ready" after
    neo_objs,           \* heap of NearEarthObject instances, by identity
    cad_objs,           \* heap of CloseApproach instances, by identity
    neos,               \* the list of NEOs handed to the constructor
    approaches,         \* the list of close approaches handed to the constructor
    db_neos,            \* NEODatabase._neos
    db_approaches,      \* NEODatabase._approaches
    designation_dict,   \* NEODatabase._designation_dict
    name_dict,          \* NEODatabase._name_dict
    ret,                \* the last lookup call and what it returned or raised
    streams,            \* the generators returned by query, one per stream
    info,               \* keyword arguments of a NearEarthObject(...) call
    ca_args,            \* arguments of a CloseApproach(...) call
    made,               \* outcome of the last model constructor call
    written             \* outcome of the last consumer of query results

vars == <<pc, neo_objs, cad_objs, neos, approaches, db_neos, db_approaches,
          designation_dict, name_dict, ret, streams, info, ca_args, made, written>>

dbVars == <<pc, neo_objs, cad_objs, neos, approaches, db_neos, db_approaches,
            designation_dict, name_dict>>

(***************************************************************************)
(* Bounds of the model.                                                    *)
(***************************************************************************)
MaxNeos == 2
MaxCads == 2
MaxFilters == 2

(***************************************************************************)
(* Python values.  A value is a record [t, s]: t is the Python type and s  *)
(* the characters of a str (empty for the other types).                    *)
(***************************************************************************)
PyNone == [t |-> "None", s |-> <<>>]
PyStr(chars) == [t |-> "str", s |-> chars]
PyInt == [t |-> "int", s |-> <<>>]
PyFloat == [t |-> "float", s |-> <<>>]
PyNaN == [t |-> "nan", s |-> <<>>]
PyList == [t |-> "list", s |-> <<>>]
PyTrue == [t |-> "True", s |-> <<>>]
PyFalse == [t |-> "False", s |-> <<>>]
Absent == [t |-> "absent", s |-> <<>>]

NoNeo == 0

SeqsUpTo(S, n) == UNION {[1..k -> S] : k \in 0..n}

(***************************************************************************)
(* str.upper, str.lower, str.capitalize, str.title and str.strip on the    *)
(* alphabet of the model.                                                  *)
(***************************************************************************)
UpperChar(c) ==
    CASE c = "a" -> "A"
      [] c = "b" -> "B"
      [] OTHER -> c

LowerChar(c) ==
    CASE c = "A" -> "a"
      [] c = "B" -> "b"
      [] OTHER -> c

IsCased(c) == c \in {"a", "b", "A", "B"}

upper(str) == [i \in 1..Len(str) |-> UpperChar(str[i])]

capitalize(str) ==
    [i \in 1..Len(str) |-> IF i = 1 THEN UpperChar(str[i]) ELSE LowerChar(str[i])]

\* str.title: the first letter of every word in upper case, the rest in lower
\* case.  database.py does not call it; it is the normalisation the
\* specification names for get_neo_by_name.
title(str) ==
    [i \in 1..Len(str) |->
        IF i = 1 \/ ~IsCased(str[i - 1]) THEN UpperChar(str[i]) ELSE LowerChar(str[i])]

RECURSIVE lstrip(_)
lstrip(str) ==
    IF str # <<>> /\ Head(str) = " " THEN lstrip(Tail(str)) ELSE str

RECURSIVE rstrip(_)
rstrip(str) ==
    IF str # <<>> /\ str[Len(str)] = " "
    THEN rstrip(SubSeq(str, 1, Len(str) - 1))
    ELSE str

strip(str) == rstrip(lstrip(str))

(***************************************************************************)
(* dict: a function whose domain is the set of keys.                       *)
(***************************************************************************)
EmptyDict == <<>>

DictSet(d, k, v) == [x \in (DOMAIN d) \cup {k} |-> IF x = k THEN v ELSE d[x]]

DictGet(d, k, default) == IF k \in DOMAIN d THEN d[k] ELSE default

(***************************************************************************)
(* models.py: the record model.                                            *)
(***************************************************************************)
Unset == [t |-> "unset", s |-> <<>>]
PyDatetime == [t |-> "datetime", s |-> <<>>]

IsDigit(c) == c \in {"3", "4", "9"}

\* float(value) succeeds on numbers, bools and numeric strings, raises
\* ValueError on any other string and TypeError on None and on containers.
IsNumericStr(str) ==
    /\ strip(str) # <<>>
    /\ \A i \in 1..Len(strip(str)) : IsDigit(strip(str)[i])

float(value) ==
    CASE value.t \in {"float", "int", "True", "False"} -> [raised |-> "", value |-> PyFloat]
      [] value.t = "nan" -> [raised |-> "", value |-> PyNaN]
      [] value.t = "str" /\ IsNumericStr(value.s) -> [raised |-> "", value |-> PyFloat]
      [] value.t = "str" /\ ~IsNumericStr(value.s) -> [raised |-> "ValueError", value |-> Unset]
      [] OTHER -> [raised |-> "TypeError", value |-> Unset]

\* str(value) never raises; on a str it is the identity.
str(value) ==
    CASE value.t = "str" -> value
      [] value.t = "None" -> PyStr(<<"N", "o", "n", "e">>)
      [] value.t = "int" -> PyStr(<<"4">>)
      [] value.t = "list" -> PyStr(<<"[", "]">>)
      [] OTHER -> PyStr(<<value.t>>)

\* The exceptions NearEarthObject.__init__ catches around each key.
NeoCaught == {"ValueError", "NameError"}

NeoDefaults ==
    [designation |-> PyStr(<<"designation unknown">>),
     name |-> PyNone,
     diameter |-> PyNaN,
     hazardous |-> PyFalse,
     approaches |-> <<>>]

\* One pass of the loop body for one key of info: the attribute set by the
\* key, or the exception its coercion raises.
NeoCoerce(key, value) ==
    CASE key = "designation" -> [raised |-> "", value |-> str(value)]
      [] key = "name" ->
            IF value.t = "None" THEN [raised |-> "", value |-> PyNone]
            ELSE IF value.t # "str" THEN [raised |-> "AttributeError", value |-> Unset]
            ELSE IF Len(strip(value.s)) = 0 THEN [raised |-> "", value |-> PyNone]
            ELSE [raised |-> "", value |-> str(value)]
      [] key = "diameter" ->
            IF value.t = "None" THEN [raised |-> "", value |-> PyNaN] ELSE float(value)
      [] key = "hazardous" ->
            [raised |-> "",
             value |-> IF value.t \in {"None", "False"} THEN PyFalse ELSE PyTrue]
      [] OTHER -> [raised |-> "", value |-> Unset]

NeoKeys == <<"designation", "name", "diameter", "hazardous", "other">>

\* for key, value in info.items(): try ... except ValueError / NameError.
\* out is [raised, obj]; a key that is not in info (Absent) is not visited,
\* an exception that is not caught leaves the constructor at once.
RECURSIVE NeoLoop(_, _, _)
NeoLoop(kwargs, out, k) ==
    IF k > Len(NeoKeys) \/ out.raised # "" THEN out
    ELSE LET key == NeoKeys[k]
             c == NeoCoerce(key, kwargs[key])
         IN  IF kwargs[key] = Absent \/ key = "other" THEN NeoLoop(kwargs, out, k + 1)
             ELSE IF c.raised = ""
                  THEN NeoLoop(kwargs, [out EXCEPT !.obj[key] = c.value], k + 1)
             ELSE IF c.raised \in NeoCaught THEN NeoLoop(kwargs, out, k + 1)
             ELSE [out EXCEPT !.raised = c.raised]

NearEarthObject_init(kwargs) ==
    LET out == NeoLoop(kwargs, [raised |-> "", obj |-> NeoDefaults], 1)
    IN  IF out.raised # "" THEN out
        ELSE [out EXCEPT !.obj.approaches = <<>>]

\* CloseApproach.__init__(des, cd, dist=nan, v_rel=nan, neo=None).  An
\* attribute that is never assigned is Unset: reading it raises.
CaCaught == {"ValueError"}

CaNoAttributes ==
    [designation |-> Unset, time |-> Unset, distance |-> Unset,
     velocity |-> Unset, neo |-> NoNeo]

CaFloatField(arg) ==
    float(IF arg = Absent THEN PyNaN ELSE arg)

CloseApproach_init(args) ==
    LET d == CaFloatField(args.dist)
        v == CaFloatField(args.v_rel)
        o1 == [CaNoAttributes EXCEPT !.designation = args.des, !.time = args.cd]
        o2 == IF d.raised = "" THEN [o1 EXCEPT !.distance = d.value] ELSE o1
        o3 == IF v.raised = "" THEN [o2 EXCEPT !.velocity = v.value] ELSE o2
    IN  IF d.raised # "" /\ d.raised \notin CaCaught THEN [raised |-> d.raised, obj |-> o1]
        ELSE IF v.raised # "" /\ v.raised \notin CaCaught THEN [raised |-> v.raised, obj |-> o2]
        ELSE [raised |-> "", obj |-> [o3 EXCEPT !.neo = args.neo]]

(***************************************************************************)
(* The inputs of the model.                                                *)
(***************************************************************************)
S433 == <<"4", "3", "3">>
SAB == <<"A", "B">>
Sab == <<"a", "b">>
S9 == <<"9">>

\* Primary designations of the NEOs, and the designations close approaches
\* carry (S9 is the designation of no NEO).
NeoDesignations == {PyStr(S433), PyStr(SAB), PyStr(Sab)}
CadDesignations == {PyStr(S433), PyStr(SAB), PyStr(S9)}

\* IAU names: none, a one-word name, a two-word name.
NeoNames == {PyNone, PyStr(<<"A", "b">>), PyStr(<<"A", " ", "B">>)}

\* The strings (and None) the lookups are called with.
DesignationArgs == NeoDesignations \cup {PyStr(S9)}
NameArgs ==
    {PyNone, PyStr(<<>>), PyStr(<<"a", "B">>),
     PyStr(<<"A", " ", "B">>), PyStr(<<"a", " ", "b">>)}

NoInfo ==
    [designation |-> Absent, name |-> Absent, diameter |-> Absent,
     hazardous |-> Absent, other |-> Absent]

NoArgs == [des |-> Absent, cd |-> Absent, dist |-> Absent, v_rel |-> Absent, neo |-> NoNeo]

\* extract.load_neos: one NearEarthObject per row, from its four columns.
LoadedNeos(designations, names) ==
    {NearEarthObject_init([NoInfo EXCEPT !.designation = d, !.name = n,
                                         !.diameter = PyNaN, !.hazardous = PyFalse]).obj :
        d \in designations, n \in names}

\* extract.load_approaches: one CloseApproach per data item, neo=None.
LoadedCads(designations) ==
    {CloseApproach_init([NoArgs EXCEPT !.des = d, !.cd = PyDatetime,
                                       !.dist = PyFloat, !.v_rel = PyFloat]).obj :
        d \in designations}

NoCall == [op |-> "none", arg |-> PyNone, raised |-> "", value |-> NoNeo]

Streams == {1, 2}

NoStream == [state |-> "none", filters |-> <<>>, cursor |-> 0, out |-> <<>>, evals |-> <<>>]

NothingWritten == [op |-> "none", raised |-> "", rows |-> <<>>]

Identities(objs) == [i \in 1..Len(objs) |-> i]

\* Neither model constructor is being called.
ModelsIdle ==
    /\ info = NoInfo
    /\ ca_args = NoArgs
    /\ made = [kind |-> "none", raised |-> "", neo |-> NeoDefaults, ca |-> CaNoAttributes]

\* The collections main hands to NEODatabase(neos, approaches): freshly
\* loaded, not yet linked.
InitDb(neoSet, cadSet) ==
    /\ pc = "new"
    /\ neo_objs \in SeqsUpTo(neoSet, MaxNeos)
    /\ cad_objs \in SeqsUpTo(cadSet, MaxCads)
    /\ neos = Identities(neo_objs)
    /\ approaches = Identities(cad_objs)
    /\ db_neos = <<>>
    /\ db_approaches = <<>>
    /\ designation_dict = EmptyDict
    /\ name_dict = EmptyDict
    /\ ret = NoCall
    /\ streams = [s \in Streams |-> NoStream]
    /\ written = NothingWritten
    /\ ModelsIdle

Init == InitDb(LoadedNeos(NeoDesignations, NeoNames), LoadedCads(CadDesignations))

(***************************************************************************)
(* database.py: NEODatabase.__init__                                       *)
(***************************************************************************)
\* bool(value) of a name: None and the empty string are falsy.
Truthy(value) == ~(value.t = "None" \/ (value.t = "str" /\ value.s = <<>>))

\* for neo in self._neos: fill both dictionaries (lines 78-83); d is
\* [designation, name].
RECURSIVE BuildDicts(_, _, _, _)
BuildDicts(objs, ns, d, i) ==
    IF i > Len(ns) THEN d
    ELSE LET neo == objs[ns[i]]
             d1 == [d EXCEPT !.designation = DictSet(@, neo.designation, ns[i])]
             d2 == IF Truthy(neo.name)
                   THEN [d1 EXCEPT !.name = DictSet(@, neo.name, ns[i])]
                   ELSE d1
         IN  BuildDicts(objs, ns, d2, i + 1)

\* Link without the assignment cad.neo = neo.
Link_NoBackReference(h, dd, cad) ==
    LET key == h.c[cad].designation
    IN  IF key \in DOMAIN dd
        THEN [h EXCEPT !.n[dd[key]].approaches = Append(@, cad)]
        ELSE h

\* Link with neo.approaches.insert(0, cad) in place of append.
Link_Prepend(h, dd, cad) ==
    LET key == h.c[cad].designation
    IN  IF key \in DOMAIN dd
        THEN [h EXCEPT !.n[dd[key]].approaches = <<cad>> \o @,
                       !.c[cad].neo = dd[key]]
        ELSE h

\* The body of the linking loop for the close approach cad (lines 87-94); h
\* is the pair of heaps [n, c].  A KeyError is caught and logged.
Link(h, dd, cad) ==
    LET key == h.c[cad].designation
    IN  IF key \in DOMAIN dd
        THEN LET neo == dd[key]
             IN  [h EXCEPT !.n[neo].approaches = Append(@, cad),
                           !.c[cad].neo = neo]
        ELSE h

\* The linking loop with the try around the loop instead of inside it: the
\* first KeyError ends the pass.
RECURSIVE LinkLoop_AbortOnKeyError(_, _, _, _)
LinkLoop_AbortOnKeyError(h, dd, cads, i) ==
    IF i > Len(cads) \/ h.c[cads[i]].designation \notin DOMAIN dd THEN h
    ELSE LinkLoop_AbortOnKeyError(Link(h, dd, cads[i]), dd, cads, i + 1)

\* for cad in self._approaches (line 85).
RECURSIVE LinkLoop(_, _, _, _)
LinkLoop(h, dd, cads, i) ==
    IF i > Len(cads) THEN h
    ELSE LinkLoop(Link(h, dd, cads[i]), dd, cads, i + 1)

\* The except branch that also drops the dangling close approach.
KeptApproaches_DropDangling(cads, h) ==
    SelectSeq(cads, LAMBDA c : h.c[c].neo # NoNeo)

\* self._approaches = approaches (line 65): the list itself, from which the
\* except branch (lines 92-94) removes nothing.
KeptApproaches(cads, h) == cads

NEODatabase_init ==
    /\ pc = "new"
    /\ LET d == BuildDicts(neo_objs, neos, [designation |-> EmptyDict, name |-> EmptyDict], 1)
           h == LinkLoop([n |-> neo_objs, c |-> cad_objs], d.designation, approaches, 1)
       IN  /\ db_neos' = neos
           /\ db_approaches' = KeptApproaches(approaches, h)
           /\ designation_dict' = d.designation
           /\ name_dict' = d.name
           /\ neo_objs' = h.n
           /\ cad_objs' = h.c
    /\ pc' = "ready"
    /\ UNCHANGED <<neos, approaches, ret, streams, info, ca_args, made, written>>

(***************************************************************************)
(* database.py: the two lookups                                            *)
(***************************************************************************)
\* designation.upper() and name.capitalize() are str methods: on None they
\* raise AttributeError.
get_neo_by_designation(dd, designation) ==
    IF designation.t # "str" THEN [raised |-> "AttributeError", value |-> NoNeo]
    ELSE [raised |-> "", value |-> DictGet(dd, PyStr(upper(designation.s)), NoNeo)]

get_neo_by_name(nd, name) ==
    IF name.t # "str" THEN [raised |-> "AttributeError", value |-> NoNeo]
    ELSE [raised |-> "", value |-> DictGet(nd, PyStr(capitalize(name.s)), NoNeo)]

GetNeoByDesignation(designation) ==
    /\ pc = "ready"
    /\ LET r == get_neo_by_designation(designation_dict, designation)
       IN  ret' = [op |-> "get_neo_by_designation", arg |-> designation,
                   raised |-> r.raised, value |-> r.value]
    /\ UNCHANGED <<dbVars, streams, info, ca_args, made, written>>

\* The lookup written with dict.setdefault: a miss adds the key.
GetNeoByName_SetDefault(name) ==
    /\ pc = "ready"
    /\ LET r == get_neo_by_name(name_dict, name)
       IN  /\ ret' = [op |-> "get_neo_by_name", arg |-> name,
                      raised |-> r.raised, value |-> r.value]
           /\ name_dict' = IF r.raised = "" /\ r.value = NoNeo
                           THEN DictSet(name_dict, PyStr(capitalize(name.s)), NoNeo)
                           ELSE name_dict
    /\ UNCHANGED <<pc, neo_objs, cad_objs, neos, approaches, db_neos, db_approaches,
                   designation_dict, streams, info, ca_args, made, written>>

GetNeoByName(name) ==
    /\ pc = "ready"
    /\ LET r == get_neo_by_name(name_dict, name)
       IN  ret' = [op |-> "get_neo_by_name", arg |-> name,
                   raised |-> r.raised, value |-> r.value]
    /\ UNCHANGED <<dbVars, streams, info, ca_args, made, written>>

Next ==
    \/ NEODatabase_init
    \/ \E designation \in DesignationArgs : GetNeoByDesignation(designation)
    \/ \E name \in NameArgs : GetNeoByName(name)

Spec == Init /\ [][Next]_vars

(***************************************************************************)
(* Properties of the constructor and of the lookups.                       *)
(***************************************************************************)
NeoIds == 1..Len(neo_objs)
CadIds == 1..Len(cad_objs)

Count(seq, x) == Cardinality({i \in 1..Len(seq) : seq[i] = x})

Range(seq) == {seq[i] : i \in 1..Len(seq)}

HasNeo(designation) == \E n \in NeoIds : neo_objs[n].designation = designation

UniqueDesignations ==
    \A m, n \in NeoIds : neo_objs[m].designation = neo_objs[n].designation => m = n

LastCallIs(op) == pc = "ready" /\ ret.op = op

\* C1 (as claimed): with pairwise distinct designations and no approaches,
\* get_neo_by_designation(d) returns the NEO whose designation is d whenever
\* some NEO has the designation d, in whatever letter case it is stored, and
\* None whenever no NEO has it.
C1_LookupByDesignationAsClaimed ==
    (LastCallIs("get_neo_by_designation") /\ UniqueDesignations /\ approaches = <<>>) =>
        /\ ret.raised = ""
        /\ IF HasNeo(ret.arg)
           THEN ret.value # NoNeo /\ neo_objs[ret.value].designation = ret.arg
           ELSE ret.value = NoNeo

\* C2: after construction every close approach whose designation is the
\* designation of some NEO refers to a NEO with that designation (the NEO,
\* when designations are unique), and that NEO's approaches hold the close
\* approach exactly once.
C2_MatchedApproachIsLinkedOnce ==
    pc = "ready" =>
        \A c \in CadIds :
            HasNeo(cad_objs[c].designation) =>
                /\ cad_objs[c].neo \in NeoIds
                /\ neo_objs[cad_objs[c].neo].designation = cad_objs[c].designation
                /\ Count(neo_objs[cad_objs[c].neo].approaches, c) = 1

\* Two close approaches of the same NEO have been linked, next to one that
\* matches no NEO.
C2_Witness ==
    /\ pc = "ready"
    /\ UniqueDesignations
    /\ \E c, e \in CadIds :
        /\ c # e
        /\ HasNeo(cad_objs[c].designation)
        /\ cad_objs[c].neo # NoNeo
        /\ cad_objs[e].neo = cad_objs[c].neo

\* C3: after construction a close approach whose designation is no NEO's
\* designation has neo None and is in no NEO's approaches, and every close
\* approach after it in the input that does match a NEO is linked.
C3_DanglingApproachStaysUnlinked ==
    pc = "ready" =>
        \A i \in 1..Len(db_approaches) :
            LET c == db_approaches[i]
            IN  ~HasNeo(cad_objs[c].designation) =>
                    /\ cad_objs[c].neo = NoNeo
                    /\ \A n \in NeoIds : c \notin Range(neo_objs[n].approaches)
                    /\ \A j \in (i + 1)..Len(db_approaches) :
                        LET e == db_approaches[j]
                        IN  HasNeo(cad_objs[e].designation) =>
                                /\ cad_objs[e].neo \in NeoIds
                                /\ e \in Range(neo_objs[cad_objs[e].neo].approaches)

\* A dangling close approach is followed by one that was linked.
C3_Witness ==
    /\ pc = "ready"
    /\ \E i, j \in 1..Len(db_approaches) :
        /\ i < j
        /\ ~HasNeo(cad_objs[db_approaches[i]].designation)
        /\ cad_objs[db_approaches[i]].neo = NoNeo
        /\ cad_objs[db_approaches[j]].neo # NoNeo

\* C7 (as claimed): get_neo_by_name("") and get_neo_by_name(None) both
\* return None and do not raise.
C7_EmptyOrNoneNameAsClaimed ==
    (LastCallIs("get_neo_by_name") /\ ret.arg \in {PyNone, PyStr(<<>>)}) =>
        ret.raised = "" /\ ret.value = NoNeo

\* C8 (as claimed): get_neo_by_name(name) returns the NEO indexed under the
\* title-cased name, or None if there is none.
C8_LookupByTitleCasedNameAsClaimed ==
    (LastCallIs("get_neo_by_name") /\ ret.arg.t = "str") =>
        /\ ret.raised = ""
        /\ ret.value = DictGet(name_dict, PyStr(title(ret.arg.s)), NoNeo)

(***************************************************************************)
(* database.py: query, a generator.  query(filters) returns a generator    *)
(* that has run nothing; each next() on it runs the loop up to the next    *)
(* yield, or to the end of the collection.                                 *)
(***************************************************************************)
\* The predicates callers pass: pure functions of a close approach.
Preds == {"never", "des_433", "linked"}

\* An element of filters that is no function: calling it raises TypeError.
NotCallable == "not_callable"

Callable(marker) == marker # NotCallable

Accepts(marker, approach) ==
    CASE marker = "never" -> FALSE
      [] marker = "des_433" -> approach.designation = PyStr(S433)
      [] marker = "linked" -> approach.neo # NoNeo
      [] OTHER -> FALSE

Filters == SeqsUpTo(Preds, MaxFilters)

\* The inner loop with flag = marker(approach) and no break.
RECURSIVE Match_LastMarkerWins(_, _, _)
Match_LastMarkerWins(filters, approach, k) ==
    IF k > Len(filters) THEN TRUE
    ELSE IF k = Len(filters) THEN Accepts(filters[k], approach)
    ELSE Match_LastMarkerWins(filters, approach, k + 1)

\* flag after the inner loop (lines 152-156), entered at marker k.
RECURSIVE Match(_, _, _)
Match(filters, approach, k) ==
    IF k > Len(filters) THEN TRUE
    ELSE IF ~Accepts(filters[k], approach) THEN FALSE
    ELSE Match(filters, approach, k + 1)

\* The outer loop from position i on (lines 151-159): the position of the
\* next close approach that is yielded, Len + 1 if the loop runs out.
RECURSIVE Scan(_, _, _, _)
Scan(cads, objs, filters, i) ==
    IF i > Len(cads) THEN i
    ELSE IF Match(filters, objs[cads[i]], 1) THEN i
    ELSE Scan(cads, objs, filters, i + 1)

\* An iterator kept on the database and shared by the generators.
IterStart_Shared(strs, s) ==
    IF \E o \in DOMAIN strs : o # s /\ strs[o].cursor > 0
    THEN (CHOOSE c \in {strs[o].cursor : o \in (DOMAIN strs) \ {s}} : TRUE)
    ELSE 1

\* for approach in self._approaches (line 151): each generator iterates the
\* list with an iterator of its own, from the first element.
IterStart(strs, s) == 1

\* The inner loop raises on approach: it reaches a marker that cannot be
\* called before any marker has returned false.
RECURSIVE MatchRaises(_, _, _)
MatchRaises(filters, approach, k) ==
    IF k > Len(filters) THEN FALSE
    ELSE IF ~Callable(filters[k]) THEN TRUE
    ELSE IF ~Accepts(filters[k], approach) THEN FALSE
    ELSE MatchRaises(filters, approach, k + 1)

\* The position from i on at which the inner loop raises, Len + 1 if none.
RECURSIVE ScanRaise(_, _, _, _)
ScanRaise(cads, objs, filters, i) ==
    IF i > Len(cads) THEN i
    ELSE IF MatchRaises(filters, objs[cads[i]], 1) THEN i
    ELSE ScanRaise(cads, objs, filters, i + 1)

\* The inner loop with flag = False and no break: every marker is called.
MatchCalls_NoBreak(filters, c, approach, k) ==
    [n \in 1..(Len(filters) + 1 - k) |-> [marker |-> n + k - 1, approach |-> c]]

\* The calls marker(approach) the inner loop makes on the close approach c,
\* from marker k on, in the order it makes them (lines 153-156).
RECURSIVE MatchCalls(_, _, _, _)
MatchCalls(filters, c, approach, k) ==
    IF k > Len(filters) THEN <<>>
    ELSE <<[marker |-> k, approach |-> c]>> \o
         (IF ~Callable(filters[k]) \/ ~Accepts(filters[k], approach) THEN <<>>
          ELSE MatchCalls(filters, c, approach, k + 1))

\* The calls the outer loop makes on the positions i..stop.
RECURSIVE ScanCalls(_, _, _, _, _)
ScanCalls(cads, objs, filters, i, stop) ==
    IF i > stop \/ i > Len(cads) THEN <<>>
    ELSE MatchCalls(filters, cads[i], objs[cads[i]], 1) \o
         ScanCalls(cads, objs, filters, i + 1, stop)

\* query building the list of matches when it is called.
EvalsAtCall_Eager(cads, objs, filters) ==
    ScanCalls(cads, objs, filters, 1, Len(cads))

\* query is a generator function: the call runs none of its body, so no
\* marker is called before the first next().
EvalsAtCall(cads, objs, filters) == <<>>

\* The filters kept on the database, where the latest query call puts them.
ActiveFilters_OfLatestQuery(strs, s) ==
    IF \E o \in DOMAIN strs : o # s /\ strs[o].state # "none"
    THEN (CHOOSE f \in {strs[o].filters : o \in (DOMAIN strs) \ {s}} : TRUE)
    ELSE strs[s].filters

\* filters is a parameter of the call: each generator holds its own.
ActiveFilters(strs, s) == strs[s].filters

Min(a, b) == IF a <= b THEN a ELSE b

\* The generator object a call query(filters) returns.
NewStream(filters) ==
    [state |-> "created", filters |-> filters, cursor |-> 0, out |-> <<>>,
     evals |-> EvalsAtCall(db_approaches, cad_objs, filters)]

Query(s, filters) ==
    /\ pc = "ready"
    /\ streams[s].state = "none"
    /\ streams' = [streams EXCEPT ![s] = NewStream(filters)]
    /\ UNCHANGED <<dbVars, ret, info, ca_args, made, written>>

\* One next() on the generator s: the generator afterwards.  It is
\* suspended at a yield, done (StopIteration), or failed (the TypeError of a
\* marker that cannot be called leaves the generator).
StepStream(strs, s) ==
    LET g == strs[s]
        filters == ActiveFilters(strs, s)
        from == IF g.state = "created" THEN IterStart(strs, s) ELSE g.cursor
        j == Scan(db_approaches, cad_objs, filters, from)
        r == ScanRaise(db_approaches, cad_objs, filters, from)
        calls == g.evals \o ScanCalls(db_approaches, cad_objs, filters, from, Min(j, r))
    IN  IF r < j
        THEN [g EXCEPT !.state = "failed", !.cursor = r + 1, !.evals = calls]
        ELSE IF j <= Len(db_approaches)
        THEN [g EXCEPT !.state = "suspended", !.cursor = j + 1,
                       !.out = Append(@, db_approaches[j]), !.evals = calls]
        ELSE [g EXCEPT !.state = "done", !.cursor = j, !.evals = calls]

NextItem(s) ==
    /\ pc = "ready"
    /\ streams[s].state \in {"created", "suspended"}
    /\ streams' = [streams EXCEPT ![s] = StepStream(streams, s)]
    /\ UNCHANGED <<dbVars, ret, info, ca_args, made, written>>

\* The queries are checked on databases of at most one NEO, "433", and of
\* close approaches of "433" and of the unknown "9".
InitQuery ==
    /\ InitDb(LoadedNeos({PyStr(S433)}, {PyNone}), LoadedCads({PyStr(S433), PyStr(S9)}))
    /\ Len(neo_objs) <= 1

NextQuery ==
    \/ NEODatabase_init
    \/ \E s \in Streams, filters \in Filters : Query(s, filters)
    \/ \E s \in Streams : NextItem(s)

SpecQuery == InitQuery /\ [][NextQuery]_vars

(***************************************************************************)
(* Properties of query.                                                    *)
(***************************************************************************)
AllAccept(filters, c) ==
    \A k \in 1..Len(filters) : Accepts(filters[k], cad_objs[c])

Matching(filters) == SelectSeq(db_approaches, LAMBDA c : AllAccept(filters, c))

IsPrefix(p, q) == Len(p) <= Len(q) /\ p = SubSeq(q, 1, Len(p))

Called(s) == pc = "ready" /\ streams[s].state # "none"

Consumed(s) == pc = "ready" /\ streams[s].state = "done"

\* C4: what a stream has yielded so far is a prefix of the stored close
\* approaches that every predicate accepts, in storage order, and a fully
\* consumed stream has yielded exactly those; with a predicate that is
\* always false it has yielded nothing.
C4_QueryYieldsExactlyTheMatches ==
    \A s \in Streams :
        /\ Called(s) => IsPrefix(streams[s].out, Matching(streams[s].filters))
        /\ Consumed(s) => streams[s].out = Matching(streams[s].filters)
        /\ (Called(s) /\ "never" \in Range(streams[s].filters)) => streams[s].out = <<>>

\* A fully consumed stream of two predicates has dropped one close approach
\* and yielded another.
C4_Witness ==
    \E s \in Streams :
        /\ Consumed(s)
        /\ Len(streams[s].filters) = 2
        /\ Len(streams[s].out) >= 1
        /\ Len(streams[s].out) < Len(db_approaches)

\* C5: a fully consumed query() without filters has yielded the list of
\* close approaches handed to the constructor, each once and in the order
\* of the list, the unlinked ones included.
C5_EmptyQueryYieldsAllApproaches ==
    \A s \in Streams :
        (Consumed(s) /\ streams[s].filters = <<>>) =>
            /\ streams[s].out = approaches
            /\ \A c \in CadIds : Count(streams[s].out, c) = 1

\* query() has yielded a linked and an unlinked close approach.
C5_Witness ==
    \E s \in Streams :
        /\ Consumed(s)
        /\ streams[s].filters = <<>>
        /\ \E c, e \in Range(streams[s].out) :
            cad_objs[c].neo = NoNeo /\ cad_objs[e].neo # NoNeo

\* C6: two streams of the same filters, both fully consumed, have yielded
\* the same sequence, and while one of them is still being consumed it has
\* yielded a prefix of what the other has yielded in full, however the two
\* were interleaved.
C6_SameFiltersSameSequence ==
    \A s, o \in Streams :
        (Called(s) /\ Consumed(o) /\ streams[s].filters = streams[o].filters) =>
            /\ IsPrefix(streams[s].out, streams[o].out)
            /\ Consumed(s) => streams[s].out = streams[o].out

\* The second stream has been consumed in full while the first, of the same
\* filters, is suspended after its first result of two.
C6_Witness ==
    /\ Consumed(2)
    /\ streams[1].state = "suspended"
    /\ streams[1].filters = streams[2].filters
    /\ streams[1].filters # <<>>
    /\ Len(streams[1].out) = 1
    /\ Len(streams[2].out) = 2

(***************************************************************************)
(* The record model on its own: one constructor call on arbitrary          *)
(* arguments.                                                              *)
(***************************************************************************)
NeoInfos ==
    [designation : {Absent, PyStr(S433), PyInt},
     name : {Absent, PyNone, PyStr(<<>>), PyStr(<<" ">>), PyStr(<<"A", "b">>), PyInt},
     diameter : {Absent, PyNone, PyFloat, PyStr(<<"4">>), PyStr(Sab), PyList},
     hazardous : {Absent, PyNone, PyTrue, PyStr(<<"Y">>)},
     other : {Absent, PyInt}]

CaArgs ==
    [des : {PyStr(S433), PyNone},
     cd : {PyDatetime, PyNone},
     dist : {Absent, PyFloat, PyStr(<<"4">>), PyStr(Sab), PyNone},
     v_rel : {Absent, PyFloat, PyStr(<<"4">>), PyStr(Sab), PyNone},
     neo : {NoNeo}]

NearEarthObject ==
    /\ made.kind = "none"
    /\ LET out == NearEarthObject_init(info)
       IN  made' = [made EXCEPT !.kind = "neo", !.raised = out.raised, !.neo = out.obj]
    /\ UNCHANGED <<dbVars, ret, streams, info, ca_args, written>>

\* des and cd are positional: a call without them is not a call of __init__.
CloseApproach ==
    /\ made.kind = "none"
    /\ ca_args.des # Absent
    /\ ca_args.cd # Absent
    /\ LET out == CloseApproach_init(ca_args)
       IN  made' = [made EXCEPT !.kind = "ca", !.raised = out.raised, !.ca = out.obj]
    /\ UNCHANGED <<dbVars, ret, streams, info, ca_args, written>>

InitModels ==
    /\ pc = "new"
    /\ neo_objs = <<>>
    /\ cad_objs = <<>>
    /\ neos = <<>>
    /\ approaches = <<>>
    /\ db_neos = <<>>
    /\ db_approaches = <<>>
    /\ designation_dict = EmptyDict
    /\ name_dict = EmptyDict
    /\ ret = NoCall
    /\ streams = [s \in Streams |-> NoStream]
    /\ written = NothingWritten
    /\ made = [kind |-> "none", raised |-> "", neo |-> NeoDefaults, ca |-> CaNoAttributes]
    /\ \/ info \in NeoInfos /\ ca_args = NoArgs
       \/ info = NoInfo /\ ca_args \in CaArgs

NextModels ==
    \/ NearEarthObject
    \/ CloseApproach

SpecModels == InitModels /\ [][NextModels]_vars

(***************************************************************************)
(* Properties of the constructors.                                         *)
(***************************************************************************)
\* C9 (as claimed): NearEarthObject(**info) never raises; a field whose
\* coercion fails keeps its default, and approaches is empty.
C9_NeoConstructionNeverRaisesAsClaimed ==
    made.kind = "neo" =>
        /\ made.raised = ""
        /\ made.neo.approaches = <<>>
        /\ \A key \in {"designation", "name", "diameter", "hazardous"} :
            (info[key] # Absent /\ NeoCoerce(key, info[key]).raised # "") =>
                made.neo[key] = NeoDefaults[key]

\* C10 (as claimed): CloseApproach(...) with a distance or velocity that
\* float() rejects completes, the field then holds not-a-number, and all of
\* designation, time, distance, velocity and neo are defined.
C10_CaConstructionDefinesAllFieldsAsClaimed ==
    made.kind = "ca" =>
        /\ made.raised = ""
        /\ made.ca.designation # Unset
        /\ made.ca.time # Unset
        /\ made.ca.distance # Unset
        /\ made.ca.velocity # Unset
        /\ CaFloatField(ca_args.dist).raised # "" => made.ca.distance = PyNaN
        /\ CaFloatField(ca_args.v_rel).raised # "" => made.ca.velocity = PyNaN

(***************************************************************************)
(* The consumers of a query stream: write.py and CloseApproach.__str__.    *)
(***************************************************************************)
\* The exceptions write_to_csv and write_to_json catch around their loop.
WriterCaught == {"ValueError"}

\* Building the row of a close approach reads approach.neo.designation
\* (write_to_csv) or approach.neo.name (write_to_json): on neo None that is
\* an AttributeError.
RowRaises(kind, approach) ==
    CASE kind = "write_to_csv" -> IF approach.neo = NoNeo THEN "AttributeError" ELSE ""
      [] kind = "write_to_json" -> IF approach.neo = NoNeo THEN "AttributeError" ELSE ""

\* for approach in results: ... with results the generator s.  The outcome
\* is [g, raised, rows]: the generator afterwards, the exception that left
\* the writer, the close approaches whose rows were built.
RECURSIVE Drain(_, _, _, _)
Drain(strs, s, kind, rows) ==
    LET g == StepStream(strs, s)
        c == g.out[Len(g.out)]
        e == RowRaises(kind, cad_objs[c])
    IN  IF g.state = "failed" THEN [g |-> g, raised |-> "TypeError", rows |-> rows]
        ELSE IF g.state = "done" THEN [g |-> g, raised |-> "", rows |-> rows]
        ELSE IF e \in WriterCaught THEN [g |-> g, raised |-> "", rows |-> rows]
        ELSE IF e # "" THEN [g |-> g, raised |-> e, rows |-> rows]
        ELSE Drain([strs EXCEPT ![s] = g], s, kind, Append(rows, c))

Write(kind, s) ==
    /\ pc = "ready"
    /\ streams[s].state \in {"created", "suspended"}
    /\ LET d == Drain(streams, s, kind, <<>>)
       IN  /\ streams' = [streams EXCEPT ![s] = d.g]
           /\ written' = [op |-> kind, raised |-> d.raised, rows |-> d.rows]
    /\ UNCHANGED <<dbVars, ret, info, ca_args, made>>

write_to_csv(s) == Write("write_to_csv", s)

write_to_json(s) == Write("write_to_json", s)

\* str(approach): every branch of __str__ reads self.neo.fullname.
CloseApproach_str(c) ==
    /\ pc = "ready"
    /\ c \in 1..Len(cad_objs)
    /\ written' = [op |-> "__str__",
                   raised |-> IF cad_objs[c].neo = NoNeo THEN "AttributeError" ELSE "",
                   rows |-> <<c>>]
    /\ UNCHANGED <<dbVars, ret, streams, info, ca_args, made>>

NextOutput ==
    \/ NEODatabase_init
    \/ \E s \in Streams, filters \in Filters : Query(s, filters)
    \/ \E s \in Streams : write_to_csv(s)
    \/ \E s \in Streams : write_to_json(s)
    \/ \E c \in 1..MaxCads : CloseApproach_str(c)

SpecOutput == InitQuery /\ [][NextOutput]_vars

\* C11 (as claimed): write_to_csv, write_to_json and CloseApproach.__str__
\* process the results of a query without raising, also when a close
\* approach among them is unlinked (its neo is None).
C11_ConsumersDoNotRaiseAsClaimed ==
    (pc = "ready" /\ written.op \in {"write_to_csv", "write_to_json", "__str__"}) =>
        written.raised = ""

(***************************************************************************)
(* query handed a collection that holds an element that is not callable.   *)
(***************************************************************************)
AnyFilters == SeqsUpTo(Preds \cup {NotCallable}, MaxFilters)

NextInvalid ==
    \/ NEODatabase_init
    \/ \E s \in Streams, filters \in AnyFilters : Query(s, filters)
    \/ \E s \in Streams : NextItem(s)

SpecInvalid == InitQuery /\ [][NextInvalid]_vars

\* C12 (as claimed): an element of filters that is not callable is reported
\* when the collection is built or handed to query, so no stream fails on
\* it while it is being iterated.
C12_NoFailureDuringIterationAsClaimed ==
    \A s \in Streams : streams[s].state # "failed"

(***************************************************************************)
(* Properties of the constructor on duplicate designations and of the      *)
(* link in both directions.                                                *)
(***************************************************************************)
\* The NEOs that share their designation with a NEO later in the input.
Shadowed == {m \in NeoIds : \E n \in NeoIds : m < n /\ neo_objs[n].designation = neo_objs[m].designation}

\* The last NEO of the input with the designation.
Latest(designation) ==
    CHOOSE n \in NeoIds :
        /\ neo_objs[n].designation = designation
        /\ \A m \in NeoIds : neo_objs[m].designation = designation => m <= n

\* C13 (as claimed): when NEOs share a designation, get_neo_by_designation
\* of it returns the latest of them, every close approach of the
\* designation is linked to the latest only, and the approaches of the
\* earlier ones stay empty.
C13_LaterDuplicateWinsAsClaimed ==
    pc = "ready" =>
        \A m \in Shadowed :
            LET d == neo_objs[m].designation
            IN  /\ designation_dict[d] = Latest(d)
                /\ (ret.op = "get_neo_by_designation" /\ ret.arg = d) => ret.value = Latest(d)
                /\ \A c \in CadIds : cad_objs[c].designation = d => cad_objs[c].neo = Latest(d)
                /\ neo_objs[m].approaches = <<>>
\* The position of the close approach c in the database's collection.
Pos(c) == CHOOSE i \in 1..Len(db_approaches) : db_approaches[i] = c

\* C17: after construction a close approach is in a NEO's approaches exactly
\* if its neo is that NEO, the two then have the same designation, and the
\* approaches of a NEO are in the order of the database's collection.
C17_LinkDirectionsAgree ==
    pc = "ready" =>
        \A n \in NeoIds :
            /\ \A c \in CadIds :
                /\ (c \in Range(neo_objs[n].approaches)) <=> (cad_objs[c].neo = n)
                /\ cad_objs[c].neo = n => cad_objs[c].designation = neo_objs[n].designation
            /\ \A i, j \in 1..Len(neo_objs[n].approaches) :
                i < j => Pos(neo_objs[n].approaches[i]) < Pos(neo_objs[n].approaches[j])

\* One of two NEOs holds two close approaches.
C17_Witness ==
    /\ pc = "ready"
    /\ \E n \in NeoIds :
        /\ Len(neo_objs[n].approaches) = 2
        /\ Len(neo_objs) = 2

(***************************************************************************)
(* Properties of the calls query makes on the predicates.                  *)
(***************************************************************************)
\* The markers called on the close approach c by the stream s, in the order
\* of the calls.
MarkersCalledOn(s, c) ==
    LET on == SelectSeq(streams[s].evals, LAMBDA e : e.approach = c)
    IN  [i \in 1..Len(on) |-> on[i].marker]

\* The position in filters of the first predicate that rejects c, and
\* Len(filters) if none does.
LastToCall(filters, c) ==
    LET failing == {k \in 1..Len(filters) : ~Accepts(filters[k], cad_objs[c])}
    IN  IF failing = {} THEN Len(filters)
        ELSE CHOOSE k \in failing : \A l \in failing : k <= l

\* C14: on each close approach a stream has examined, the predicates were
\* called in the order given, each once, up to and including the first that
\* returned false, and none after it; close approaches are examined in
\* storage order, one after the other.
C14_ShortCircuitInOrder ==
    \A s \in Streams :
        Called(s) =>
            /\ \A c \in CadIds :
                \/ MarkersCalledOn(s, c) = <<>>
                \/ MarkersCalledOn(s, c) =
                       [i \in 1..LastToCall(streams[s].filters, c) |-> i]
            /\ \A i, j \in 1..Len(streams[s].evals) :
                i < j => Pos(streams[s].evals[i].approach) <= Pos(streams[s].evals[j].approach)

\* A stream of two predicates has stopped at the first on one close approach
\* and called both on another.
C14_Witness ==
    \E s \in Streams :
        /\ Called(s)
        /\ Len(streams[s].filters) = 2
        /\ \E c, e \in CadIds :
            /\ MarkersCalledOn(s, c) = <<1>>
            /\ MarkersCalledOn(s, e) = <<1, 2>>

\* C15: calling query calls no predicate, and a stream suspended after its
\* k-th result has called predicates only on close approaches stored up to
\* and including the k-th match: none stored after it has been examined.
C15_QueryIsLazy ==
    \A s \in Streams :
        /\ (pc = "ready" /\ streams[s].state = "created") => streams[s].evals = <<>>
        /\ (pc = "ready" /\ streams[s].state = "suspended") =>
            LET kth == Matching(streams[s].filters)[Len(streams[s].out)]
            IN  /\ streams[s].cursor = Pos(kth) + 1
                /\ \A i \in 1..Len(streams[s].evals) :
                    Pos(streams[s].evals[i].approach) <= Pos(kth)

\* A stream is suspended after its first result, with predicates called and
\* a close approach stored after the result that no predicate was called on.
C15_Witness ==
    \E s \in Streams :
        /\ pc = "ready"
        /\ streams[s].state = "suspended"
        /\ Len(streams[s].out) = 1
        /\ streams[s].evals # <<>>
        /\ \E c \in CadIds :
            /\ Pos(c) > Pos(streams[s].out[1])
            /\ MarkersCalledOn(s, c) = <<>>

(***************************************************************************)
(* The lookups and a query stream on the same database.                    *)
(***************************************************************************)
\* Databases of at most one NEO, "433", with or without a name, and of
\* close approaches of "433" and of the unknown "9".
InitReadOnly ==
    /\ InitDb(LoadedNeos({PyStr(S433)}, NeoNames), LoadedCads({PyStr(S433), PyStr(S9)}))
    /\ Len(neo_objs) <= 1

NextReadOnly ==
    \/ NEODatabase_init
    \/ \E designation \in DesignationArgs : GetNeoByDesignation(designation)
    \/ \E name \in NameArgs : GetNeoByName(name)
    \/ \E filters \in Filters : Query(1, filters)
    \/ NextItem(1)

SpecReadOnly == InitReadOnly /\ [][NextReadOnly]_vars

\* C16: once the database is constructed, no lookup, query call or step of
\* a query stream changes the indices, the collections and their order, the
\* approaches of a NEO, or the designation and neo of a close approach.
C16_ReadOnlyAfterConstruction ==
    [][pc = "ready" => UNCHANGED dbVars]_vars

\* Lookups have been made next to a stream abandoned after its first
\* result, on a database with a linked close approach.
C16_Witness ==
    /\ pc = "ready"
    /\ ret.op = "get_neo_by_name"
    /\ ret.value = NoNeo
    /\ streams[1].state = "suspended"
    /\ Len(streams[1].out) = 1
    /\ Len(db_approaches) = 2
    /\ \E c \in CadIds : cad_objs[c].neo # NoNeo

(***************************************************************************)
(* Two streams of one database.                                            *)
(***************************************************************************)
\* The number of next() calls a stream has answered: one per result, and
\* one more for the StopIteration.
Nexts(g) == Len(g.out) + (IF g.state = "done" THEN 1 ELSE 0)

\* The stream s of strs after n calls of next() on it and on no other.
RECURSIVE RunAlone(_, _, _)
RunAlone(strs, s, n) ==
    IF n = 0 THEN strs[s]
    ELSE RunAlone([strs EXCEPT ![s] = StepStream(strs, s)], s, n - 1)

\* The only query of the database: query(filters), as the stream s.
OnlyStream(s, filters) ==
    [o \in Streams |-> IF o = s THEN NewStream(filters) ELSE NoStream]

\* C18: whatever the other stream's filters are and however far it has been
\* consumed, a stream is where it would be, and has yielded what it would
\* have yielded, had the same number of next() calls been made on it as the
\* only stream of the database.
C18_StreamsAreIndependent ==
    \A s \in Streams :
        Called(s) =>
            LET alone == RunAlone(OnlyStream(s, streams[s].filters), s, Nexts(streams[s]))
            IN  /\ streams[s].out = alone.out
                /\ streams[s] = alone

\* The first stream is suspended after its first result while the second,
\* of other filters, has been consumed in full with another sequence.
C18_Witness ==
    /\ pc = "ready"
    /\ streams[1].state = "suspended"
    /\ streams[2].state = "done"
    /\ streams[1].filters # streams[2].filters
    /\ Len(streams[1].out) = 1
    /\ streams[2].out # <<>>
    /\ ~IsPrefix(streams[1].out, streams[2].out)

====
